---- MODULE Spec2Model ----
(***************************************************************************)
(* A model of the dense matrix type of src/src/lib.rs: a value with fields *)
(* rows, cols and a row-major backing vector val, its constructors, its    *)
(* bounds-checked accessors, the elementwise combinators, transpose, the   *)
(* matrix-vector product and the Display implementation.                   *)
(*                                                                         *)
(* Vectors are 1-based sequences; the code's 0-based offset k is element   *)
(* k + 1.  A vector access outside 0..len-1 and a usize subtraction below  *)
(* zero in a build with overflow checks are panics, modelled as the result *)
(* kind "panic".                                                           *)
(***************************************************************************)
EXTENDS Integers, Sequences, FiniteSets, TLC

VARIABLES m, steps, pc, call, ret

vars == <<m, steps, pc, call, ret>>

\* ------------------------------------------------------------------ bounds
MaxRows == 2
MaxCols == 3
MaxLen == 6
MaxSteps == 1

\* Sample inputs (element type: the integers, one instance of Num).
Fills == {0, 3}
InsertVals == {42}
Scalars == {2, -1}
RowArgs == 0..MaxRows
ColArgs == 0..MaxCols
IdxArgs == 0..MaxCols
Iota(n) == [k \in 1..n |-> k]
InputVecs == {Iota(n) : n \in 0..MaxLen}

\* ------------------------------------------------------------ result values
Ok(kind, v) == [kind |-> kind, v |-> v]
Err(msg) == [kind |-> "err", v |-> msg]
Panic == [kind |-> "panic", v |-> "panic"]
NoRet == [kind |-> "none", v |-> "none"]

\* --------------------------------------------------------------- the struct
Matrix(rows, cols, val) == [rows |-> rows, cols |-> cols, val |-> val]

\* vec![val; n]
Repeat(val, n) == [k \in 1..n |-> val]

\* v[i] is in bounds (usize index i, 0-based)
InBounds(v, i) == i < Len(v)

\* ------------------------------------------------------------ constructors
NewBadLen(rows, cols, val) == Matrix(rows, cols, Repeat(val, rows + cols))

New(rows, cols, val) == Matrix(rows, cols, Repeat(val, rows * cols))

NewWithValLenient(rows, cols, val) ==
    IF Len(val) < rows * cols
    THEN Err("Value length needs to equal rows * cols")
    ELSE Ok("mat", Matrix(rows, cols, val))

NewWithVal(rows, cols, val) ==
    IF Len(val) # rows * cols
    THEN Err("Value length needs to equal rows * cols")
    ELSE Ok("mat", Matrix(rows, cols, val))

\* ---------------------------------------------------------------- accessors
IndexLenient(self, row, col) ==
    IF row > self.rows \/ col > self.cols
    THEN Err("Index out of range")
    ELSE IF ~InBounds(self.val, row * self.cols + col)
         THEN Panic
         ELSE Ok("val", self.val[row * self.cols + col + 1])

Index(self, row, col) ==
    IF row >= self.rows \/ col >= self.cols
    THEN Err("Index out of range")
    ELSE IF ~InBounds(self.val, row * self.cols + col)
         THEN Panic
         ELSE Ok("val", self.val[row * self.cols + col + 1])

\* insert: the pair <<result, matrix after the call>>
InsertByRows(self, row, col, value) ==
    IF row >= self.rows \/ col >= self.cols
    THEN <<Err("Index out of range"), self>>
    ELSE IF ~InBounds(self.val, row * self.rows + col)
         THEN <<Panic, self>>
         ELSE <<Ok("unit", "unit"),
                [self EXCEPT !.val[row * self.rows + col + 1] = value]>>

Insert(self, row, col, value) ==
    IF row >= self.rows \/ col >= self.cols
    THEN <<Err("Index out of range"), self>>
    ELSE IF ~InBounds(self.val, row * self.cols + col)
         THEN <<Panic, self>>
         ELSE <<Ok("unit", "unit"),
                [self EXCEPT !.val[row * self.cols + col + 1] = value]>>

Dimensions(self) == <<self.rows, self.cols>>

\* ------------------------------------------------------------------ closures
\* The closures the callers pass: |x| x * k, |x| x + k for map;
\* |x, y| x * y, |x, y| x + y, |x, y| x - y for map2.
Apply1(f, x) ==
    CASE f.op = "times" -> x * f.k
      [] f.op = "plus" -> x + f.k

Apply2(f, x, y) ==
    CASE f = "mul" -> x * y
      [] f = "add" -> x + y
      [] f = "sub" -> x - y

MapFns == {[op |-> "times", k |-> 2], [op |-> "plus", k |-> 1]}
Map2Fns == {"mul"}

\* ------------------------------------------------------------------ mapping
Map(self, f) ==
    Matrix(self.rows, self.cols, [k \in 1..Len(self.val) |-> Apply1(f, self.val[k])])

Map2ByLen(self, other, f) ==
    IF Len(self.val) # Len(other.val)
    THEN Err("Both matricies need to have same dimensions")
    ELSE IF \E i \in 0..(self.rows * self.cols - 1) :
                ~InBounds(self.val, i) \/ ~InBounds(other.val, i)
         THEN Panic
         ELSE Ok("mat", Matrix(self.rows, self.cols,
                   [k \in 1..(self.rows * self.cols) |->
                       Apply2(f, self.val[k], other.val[k])]))

Map2Swapped(self, other, f) ==
    IF Dimensions(self) # Dimensions(other)
    THEN Err("Both matricies need to have same dimensions")
    ELSE IF \E i \in 0..(self.rows * self.cols - 1) :
                ~InBounds(self.val, i) \/ ~InBounds(other.val, i)
         THEN Panic
         ELSE Ok("mat", Matrix(self.rows, self.cols,
                   [k \in 1..(self.rows * self.cols) |->
                       Apply2(f, other.val[k], self.val[k])]))

Map2(self, other, f) ==
    IF Dimensions(self) # Dimensions(other)
    THEN Err("Both matricies need to have same dimensions")
    ELSE IF \E i \in 0..(self.rows * self.cols - 1) :
                ~InBounds(self.val, i) \/ ~InBounds(other.val, i)
         THEN Panic
         ELSE Ok("mat", Matrix(self.rows, self.cols,
                   [k \in 1..(self.rows * self.cols) |->
                       Apply2(f, self.val[k], other.val[k])]))

\* ---------------------------------------------------------------- transpose
RECURSIVE TransposeLoop(_, _, _, _)
TransposeLoop(self, i, j, val) ==
    IF i >= self.cols
    THEN Ok("mat", Matrix(self.cols, self.rows, val))
    ELSE IF j >= self.rows
         THEN TransposeLoop(self, i + 1, 0, val)
         ELSE IF ~InBounds(self.val, j * self.cols + i)
              THEN Panic
              ELSE TransposeLoop(self, i, j + 1,
                                 Append(val, self.val[j * self.cols + i + 1]))

RECURSIVE TransposeLoopByRows(_, _, _, _)
TransposeLoopByRows(self, i, j, val) ==
    IF i >= self.cols
    THEN Ok("mat", Matrix(self.cols, self.rows, val))
    ELSE IF j >= self.rows
         THEN TransposeLoopByRows(self, i + 1, 0, val)
         ELSE IF ~InBounds(self.val, j * self.rows + i)
              THEN Panic
              ELSE TransposeLoopByRows(self, i, j + 1,
                                       Append(val, self.val[j * self.rows + i + 1]))

TransposeByRows(self) == TransposeLoopByRows(self, 0, 0, <<>>)

TransposeKeepDims(self) ==
    LET t == TransposeLoop(self, 0, 0, <<>>)
    IN  IF t.kind = "mat" THEN Ok("mat", Matrix(self.rows, self.cols, t.v.val)) ELSE t

Transpose(self) == TransposeLoop(self, 0, 0, <<>>)

\* ------------------------------------------------------------ arithmetic
Add(self, other) == Map2(self, other, "add")

Sub(self, other) == Map2(self, other, "sub")

Scale(self, n) == Map(self, [op |-> "times", k |-> n])

\* ----------------------------------------------------------------- vec_mult
\* (0..cols).map(|j| v[j] * val[i * cols + j]).sum(), left to right from zero
RECURSIVE RowSum(_, _, _, _, _)
RowSum(self, v, i, j, acc) ==
    IF j >= self.cols
    THEN Ok("val", acc)
    ELSE IF ~InBounds(v, j) \/ ~InBounds(self.val, i * self.cols + j)
         THEN Panic
         ELSE RowSum(self, v, i, j + 1, acc + v[j + 1] * self.val[i * self.cols + j + 1])

RECURSIVE VecMultLoop(_, _, _, _)
VecMultLoop(self, v, i, out) ==
    IF i >= self.rows
    THEN Ok("vec", out)
    ELSE LET s == RowSum(self, v, i, 0, 0)
         IN  IF s.kind = "panic" THEN Panic
             ELSE VecMultLoop(self, v, i + 1, Append(out, s.v))

VecMultByRows(self, v) ==
    IF Len(v) # self.rows
    THEN Err("Vector length must equal matrix column length")
    ELSE VecMultLoop(self, v, 0, <<>>)

VecMult(self, v) ==
    IF Len(v) # self.cols
    THEN Err("Vector length must equal matrix column length")
    ELSE VecMultLoop(self, v, 0, <<>>)

\* ------------------------------------------------------------------ Display
\* The text written is modelled as the sequence of the pieces written, one per
\* write! call; an element is written through its own Display (decimal digits).
Display(x) == ToString(x)

\* fmt(self, wrap): wrap is TRUE in a build without overflow checks, where
\* 0 - 1 is usize::MAX and every loop index is below it.
RECURSIVE FmtLoop(_, _, _, _, _)
FmtLoop(self, wrap, i, j, out) ==
    IF i >= self.rows
    THEN Ok("str", Append(out, "]"))
    ELSE IF j < self.cols
         THEN IF ~InBounds(self.val, i * self.cols + j)
              THEN Panic
              ELSE LET out1 == Append(out, Display(self.val[i * self.cols + j + 1]))
                   IN  IF self.cols < 1 /\ ~wrap
                       THEN Panic
                       ELSE IF self.cols < 1 \/ j < self.cols - 1
                            THEN FmtLoop(self, wrap, i, j + 1, Append(out1, ", "))
                            ELSE FmtLoop(self, wrap, i, j + 1, out1)
         ELSE IF self.rows < 1 /\ ~wrap
              THEN Panic
              ELSE IF self.rows < 1 \/ i < self.rows - 1
                   THEN FmtLoop(self, wrap, i + 1, 0, Append(out, "; "))
                   ELSE FmtLoop(self, wrap, i + 1, 0, out)

RECURSIVE FmtLoopTrailing(_, _, _, _, _)
FmtLoopTrailing(self, wrap, i, j, out) ==
    IF i >= self.rows
    THEN Ok("str", Append(out, "]"))
    ELSE IF j < self.cols
         THEN IF ~InBounds(self.val, i * self.cols + j)
              THEN Panic
              ELSE LET out1 == Append(out, Display(self.val[i * self.cols + j + 1]))
                   IN  IF j < self.cols
                       THEN FmtLoopTrailing(self, wrap, i, j + 1, Append(out1, ", "))
                       ELSE FmtLoopTrailing(self, wrap, i, j + 1, out1)
         ELSE IF self.rows < 1 /\ ~wrap
              THEN Panic
              ELSE IF self.rows < 1 \/ i < self.rows - 1
                   THEN FmtLoopTrailing(self, wrap, i + 1, 0, Append(out, "; "))
                   ELSE FmtLoopTrailing(self, wrap, i + 1, 0, out)

FmtTrailing(self, wrap) == FmtLoopTrailing(self, wrap, 0, 0, <<"[">>)

Fmt(self, wrap) == FmtLoop(self, wrap, 0, 0, <<"[">>)

\* ------------------------------------------------------------ state machine
\* m is the caller's matrix variable.  The caller is "ready" to make a call or
\* has one "returned": then ret is the value returned and call the record of the
\* call (its name, the matrix before it, its arguments), until the caller drops
\* the value or keeps a returned matrix in m.  steps counts the in-place writes
\* and rebindings of m since it was last constructed.
NoCall == [op |-> "none", pre |-> "none", args |-> <<>>]

Called(op, args) == [op |-> op, pre |-> m, args |-> args]

\* The matrices passed by reference as the second operand: m itself, or a
\* matrix built from the vector 1, 2, ..., rows * cols.
Others == {m} \cup {Matrix(r, c, Iota(r * c)) : r \in RowArgs, c \in ColArgs}

Init ==
    /\ m = New(2, 2, 0)
    /\ steps = 0
    /\ pc = "ready"
    /\ call = NoCall
    /\ ret = NoRet

\* let m = Matrix::new(rows, cols, val)
\* The constructors take no receiver, so what they return does not depend on m;
\* the caller constructs only in place of a matrix it has not yet written to or
\* rebound (steps = 0), which loses no reachable matrix.
CallNew(rows, cols, val) ==
    /\ pc = "ready"
    /\ steps = 0
    /\ pc' = "returned"
    /\ m' = New(rows, cols, val)
    /\ steps' = 0
    /\ call' = Called("new", [rows |-> rows, cols |-> cols, val |-> val])
    /\ ret' = Ok("mat", m')

\* if let Ok(x) = Matrix::new_with_val(rows, cols, val) { m = x }
CallNewWithVal(rows, cols, val) ==
    LET r == NewWithVal(rows, cols, val)
    IN  /\ pc = "ready"
        /\ steps = 0
        /\ pc' = "returned"
        /\ ret' = r
        /\ call' = Called("new_with_val", [rows |-> rows, cols |-> cols, val |-> val])
        /\ IF r.kind = "mat"
           THEN m' = r.v /\ steps' = 0
           ELSE UNCHANGED <<m, steps>>

CallIndex(row, col) ==
    /\ pc = "ready"
    /\ pc' = "returned"
    /\ ret' = Index(m, row, col)
    /\ call' = Called("index", [row |-> row, col |-> col])
    /\ UNCHANGED <<m, steps>>

CallInsert(row, col, value) ==
    LET r == Insert(m, row, col, value)
    IN  /\ pc = "ready"
        /\ pc' = "returned"
        /\ r[1].kind = "unit" => steps < MaxSteps
        /\ ret' = r[1]
        /\ m' = r[2]
        /\ steps' = IF r[1].kind = "unit" THEN steps + 1 ELSE steps
        /\ call' = Called("insert", [row |-> row, col |-> col, value |-> value])

CallDimensions ==
    /\ pc = "ready"
    /\ pc' = "returned"
    /\ ret' = Ok("dims", Dimensions(m))
    /\ call' = Called("dimensions", <<>>)
    /\ UNCHANGED <<m, steps>>

CallMap(f) ==
    /\ pc = "ready"
    /\ pc' = "returned"
    /\ ret' = Ok("mat", Map(m, f))
    /\ call' = Called("map", [f |-> f])
    /\ UNCHANGED <<m, steps>>

CallMap2(other, f) ==
    /\ pc = "ready"
    /\ pc' = "returned"
    /\ ret' = Map2(m, other, f)
    /\ call' = Called("map2", [other |-> other, f |-> f])
    /\ UNCHANGED <<m, steps>>

CallTranspose ==
    /\ pc = "ready"
    /\ pc' = "returned"
    /\ ret' = Transpose(m)
    /\ call' = Called("transpose", <<>>)
    /\ UNCHANGED <<m, steps>>

CallAdd(other) ==
    /\ pc = "ready"
    /\ pc' = "returned"
    /\ ret' = Add(m, other)
    /\ call' = Called("add", [other |-> other])
    /\ UNCHANGED <<m, steps>>

CallSub(other) ==
    /\ pc = "ready"
    /\ pc' = "returned"
    /\ ret' = Sub(m, other)
    /\ call' = Called("sub", [other |-> other])
    /\ UNCHANGED <<m, steps>>

CallScale(n) ==
    /\ pc = "ready"
    /\ pc' = "returned"
    /\ ret' = Ok("mat", Scale(m, n))
    /\ call' = Called("scale", [n |-> n])
    /\ UNCHANGED <<m, steps>>

CallVecMult(v) ==
    /\ pc = "ready"
    /\ pc' = "returned"
    /\ ret' = VecMult(m, v)
    /\ call' = Called("vec_mult", [v |-> v])
    /\ UNCHANGED <<m, steps>>

\* format!("{}", m)
CallFmt(wrap) ==
    /\ pc = "ready"
    /\ pc' = "returned"
    /\ ret' = Fmt(m, wrap)
    /\ call' = Called("fmt", [wrap |-> wrap])
    /\ UNCHANGED <<m, steps>>

\* The caller keeps the matrix a call returned: m = returned.  A constructor's
\* result is already in m.
Rebind ==
    /\ pc = "returned"
    /\ ret.kind = "mat"
    /\ call.op \notin {"new", "new_with_val"}
    /\ steps < MaxSteps
    /\ m' = ret.v
    /\ steps' = steps + 1
    /\ pc' = "ready"
    /\ call' = NoCall
    /\ ret' = NoRet

\* The caller drops the returned value
Drop ==
    /\ pc = "returned"
    /\ pc' = "ready"
    /\ call' = NoCall
    /\ ret' = NoRet
    /\ UNCHANGED <<m, steps>>

Next ==
    \/ \E rows \in RowArgs, cols \in ColArgs, val \in Fills : CallNew(rows, cols, val)
    \/ \E rows \in RowArgs, cols \in ColArgs, val \in InputVecs :
          CallNewWithVal(rows, cols, val)
    \/ \E row \in IdxArgs, col \in IdxArgs : CallIndex(row, col)
    \/ \E row \in IdxArgs, col \in IdxArgs, value \in InsertVals :
          CallInsert(row, col, value)
    \/ CallDimensions
    \/ \E f \in MapFns : CallMap(f)
    \/ \E other \in Others, f \in Map2Fns : CallMap2(other, f)
    \/ CallTranspose
    \/ \E other \in Others : CallAdd(other)
    \/ \E other \in Others : CallSub(other)
    \/ \E n \in Scalars : CallScale(n)
    \/ \E v \in InputVecs : CallVecMult(v)
    \/ \E wrap \in BOOLEAN : CallFmt(wrap)
    \/ Rebind
    \/ Drop

Spec == Init /\ [][Next]_vars

\* =================================================================== claims
Returned(op) == pc = "returned" /\ call.op = op

\* The element of matrix x at row r, column c, as index(r, c) returns it.
At(x, r, c) == Index(x, r, c)

RECURSIVE SeqSum(_)
SeqSum(s) == IF s = <<>> THEN 0 ELSE Head(s) + SeqSum(Tail(s))

\* The pieces of ss, in order, with sep between consecutive ones.
RECURSIVE Join(_, _)
Join(ss, sep) ==
    IF ss = <<>> THEN <<>>
    ELSE IF Len(ss) = 1 THEN ss[1]
    ELSE ss[1] \o <<sep>> \o Join(Tail(ss), sep)

\* C1: every matrix the caller holds or a call returns has a backing vector of
\* length rows * cols (empty matrices included), and dimensions() returns
\* exactly (rows, cols).
C1_ShapeInvariant ==
    /\ Len(m.val) = m.rows * m.cols
    /\ (pc = "returned" /\ ret.kind = "mat") => Len(ret.v.val) = ret.v.rows * ret.v.cols
    /\ Returned("dimensions") => ret = Ok("dims", <<call.pre.rows, call.pre.cols>>)

\* C1 witness: dimensions() on the 3 x 0 matrix kept from a transpose.
C1_Witness ==
    /\ Returned("dimensions")
    /\ steps = 1
    /\ m.rows = 3 /\ m.cols = 0
    /\ ret.v = <<3, 0>>

\* C2: index(r, c) is an error exactly when r >= rows or c >= cols, otherwise
\* Ok with the element at offset r * cols + c; it never changes the matrix.
C2_IndexContract ==
    Returned("index") =>
        LET p == call.pre
            r == call.args.row
            c == call.args.col
        IN  /\ (ret.kind = "err") <=> (r >= p.rows \/ c >= p.cols)
            /\ ret.kind # "err" => ret = Ok("val", p.val[r * p.cols + c + 1])
            /\ m = p

\* C2 witness: index(2, 0) on a 2 x 3 matrix (r == rows) is rejected.
C2_Witness ==
    /\ Returned("index")
    /\ call.pre.rows = 2 /\ call.pre.cols = 3
    /\ call.args.row = 2 /\ call.args.col = 0
    /\ ret.kind = "err"

\* C3: insert(r, c, v) in range returns Ok, makes index(r, c) == v, leaves every
\* other cell, rows and cols as they were; out of range it returns an error and
\* leaves the whole matrix as it was.
C3_InsertFrame ==
    Returned("insert") =>
        LET p == call.pre
            r == call.args.row
            c == call.args.col
        IN  IF r < p.rows /\ c < p.cols
            THEN /\ ret = Ok("unit", "unit")
                 /\ m.rows = p.rows /\ m.cols = p.cols
                 /\ Len(m.val) = Len(p.val)
                 /\ At(m, r, c) = Ok("val", call.args.value)
                 /\ \A r2 \in 0..(p.rows - 1), c2 \in 0..(p.cols - 1) :
                        <<r2, c2>> # <<r, c>> => At(m, r2, c2) = At(p, r2, c2)
            ELSE ret.kind = "err" /\ m = p

\* C3 witness: insert(1, 0, 42) into the 2 x 3 matrix 1..6 succeeded.
C3_Witness ==
    /\ Returned("insert")
    /\ call.pre = Matrix(2, 3, Iota(6))
    /\ call.args.row = 1 /\ call.args.col = 0
    /\ ret.kind = "unit"
    /\ m.val = <<1, 2, 3, 42, 5, 6>>

\* C4: new_with_val(rows, cols, values) is an error exactly when
\* Len(values) # rows * cols; on success the matrix has dimensions (rows, cols)
\* and index(r, c) == values[r * cols + c] for every cell.
C4_NewWithValContract ==
    Returned("new_with_val") =>
        LET a == call.args
        IN  /\ (ret.kind = "err") <=> (Len(a.val) # a.rows * a.cols)
            /\ ret.kind # "err" =>
                  /\ ret.kind = "mat"
                  /\ m = ret.v
                  /\ Dimensions(ret.v) = <<a.rows, a.cols>>
                  /\ \A r \in 0..(a.rows - 1), c \in 0..(a.cols - 1) :
                         At(ret.v, r, c) = Ok("val", a.val[r * a.cols + c + 1])

\* C4 witness: new_with_val(2, 3, [1, 2, 3, 4, 5, 6]) succeeded.
C4_Witness ==
    /\ Returned("new_with_val")
    /\ call.args.rows = 2 /\ call.args.cols = 3
    /\ call.args.val = Iota(6)
    /\ ret.kind = "mat"

\* C5: map2, add and sub are an error exactly when the two operands' dimensions
\* differ (equal element counts do not suffice), and the receiver is unchanged
\* whether they fail or succeed.
C5_ShapeGuard ==
    (pc = "returned" /\ call.op \in {"map2", "add", "sub"}) =>
        /\ (ret.kind = "err") <=> (Dimensions(call.pre) # Dimensions(call.args.other))
        /\ ret.kind # "err" => ret.kind = "mat"
        /\ m = call.pre

\* C5 witness: a 3 x 2 matrix combined with a 2 x 3 matrix is rejected.
C5_Witness ==
    /\ pc = "returned" /\ call.op \in {"map2", "add", "sub"}
    /\ Dimensions(call.pre) = <<3, 2>>
    /\ Dimensions(call.args.other) = <<2, 3>>
    /\ ret.kind = "err"

\* C6: on equal dimensions add and sub succeed with the same dimensions and the
\* cellwise a + b and a - b (self - other); scale(n) always succeeds with the
\* same dimensions and the cellwise a * n; they agree with map2 and map.
C6_Arithmetic ==
    LET p == call.pre
        Cells == {<<r, c>> \in (0..(p.rows - 1)) \X (0..(p.cols - 1)) : TRUE}
    IN  /\ (pc = "returned" /\ call.op \in {"add", "sub"}
              /\ Dimensions(p) = Dimensions(call.args.other)) =>
               /\ ret.kind = "mat"
               /\ Dimensions(ret.v) = Dimensions(p)
               /\ \A rc \in Cells :
                     LET x == At(p, rc[1], rc[2]).v
                         y == At(call.args.other, rc[1], rc[2]).v
                     IN  At(ret.v, rc[1], rc[2]) =
                            Ok("val", IF call.op = "add" THEN x + y ELSE x - y)
               /\ ret = Map2(p, call.args.other, call.op)
        /\ Returned("scale") =>
               /\ ret.kind = "mat"
               /\ Dimensions(ret.v) = Dimensions(p)
               /\ \A rc \in Cells :
                     At(ret.v, rc[1], rc[2]) =
                        Ok("val", At(p, rc[1], rc[2]).v * call.args.n)
               /\ ret.v = Map(p, [op |-> "times", k |-> call.args.n])

\* C6 witness: [3, 3, 3; 3, 3, 3] - [1, 2, 3; 4, 5, 6] is [2, 1, 0; -1, -2, -3].
C6_Witness ==
    /\ Returned("sub")
    /\ call.pre = Matrix(2, 3, <<3, 3, 3, 3, 3, 3>>)
    /\ call.args.other = Matrix(2, 3, Iota(6))
    /\ ret = Ok("mat", Matrix(2, 3, <<2, 1, 0, -1, -2, -3>>))

\* C7: transpose() of a rows x cols matrix returns a cols x rows matrix with
\* element (i, j) equal to the input's element (j, i), and leaves the input
\* unchanged.
C7_Transpose ==
    Returned("transpose") =>
        LET p == call.pre
        IN  /\ ret.kind = "mat"
            /\ Dimensions(ret.v) = <<p.cols, p.rows>>
            /\ \A i \in 0..(p.cols - 1), j \in 0..(p.rows - 1) :
                   /\ At(ret.v, i, j).kind = "val"
                   /\ At(ret.v, i, j) = At(p, j, i)
            /\ m = p

\* C7 witness: the 2 x 3 matrix 1..6 transposed is 3 x 2 with 1, 4, 2, 5, 3, 6.
C7_Witness ==
    /\ Returned("transpose")
    /\ call.pre = Matrix(2, 3, Iota(6))
    /\ ret = Ok("mat", Matrix(3, 2, <<1, 4, 2, 5, 3, 6>>))

\* C8: transposing the transpose of a matrix gives back a matrix structurally
\* equal to it (same rows, cols and element sequence).
C8_DoubleTranspose ==
    (Returned("transpose") /\ ret.kind = "mat") => Transpose(ret.v) = Ok("mat", call.pre)

\* C8 witness: the transpose of a 3 x 2 matrix with distinct elements.
C8_Witness ==
    /\ Returned("transpose")
    /\ call.pre = Matrix(3, 2, <<1, 4, 2, 5, 3, 6>>)
    /\ ret.kind = "mat"
    /\ Transpose(ret.v) = Ok("mat", call.pre)

\* C9: vec_mult(v) is an error exactly when Len(v) # cols; otherwise it returns
\* rows sums, the i-th the sum over j of v[j] * self[i][j] (zero when cols is 0),
\* and the matrix is unchanged.
C9_VecMult ==
    Returned("vec_mult") =>
        LET p == call.pre
            v == call.args.v
        IN  /\ (ret.kind = "err") <=> (Len(v) # p.cols)
            /\ ret.kind # "err" =>
                  /\ ret.kind = "vec"
                  /\ Len(ret.v) = p.rows
                  /\ \A i \in 0..(p.rows - 1) :
                         ret.v[i + 1] =
                            SeqSum([j \in 1..p.cols |-> v[j] * At(p, i, j - 1).v])
            /\ m = p

\* C9 witness: [1, 2, 3; 4, 5, 6] times [1, 2, 3] is [14, 32].
C9_Witness ==
    /\ Returned("vec_mult")
    /\ call.pre = Matrix(2, 3, Iota(6))
    /\ call.args.v = Iota(3)
    /\ ret = Ok("vec", <<14, 32>>)

\* C10: formatting succeeds for every shape, in either build, and writes "[",
\* the rows in order separated by "; ", each row's elements separated by ", ",
\* and "]", with no separator after a row's last element or after the last row.
C10_Format ==
    Returned("fmt") =>
        LET p == call.pre
            Row(i) == Join([j \in 1..p.cols |-> <<Display(At(p, i - 1, j - 1).v)>>], ", ")
        IN  /\ ret.kind = "str"
            /\ ret.v = <<"[">> \o Join([i \in 1..p.rows |-> Row(i)], "; ") \o <<"]">>
            /\ m = p

\* C10 witness: a 2 x 0 matrix formats as "[; ]" in a build with overflow checks.
C10_Witness ==
    /\ Returned("fmt")
    /\ call.pre.rows = 2 /\ call.pre.cols = 0
    /\ call.args.wrap = FALSE
    /\ ret = Ok("str", <<"[", "; ", "]">>)

====
